---------------------------- MODULE Spec2Model ----------------------------
(***************************************************************************)
(* A state-machine model of pyabc's two ABC inference engines:             *)
(*   - RejectionSampler (src/pyabc/rejection_sampler.py)                   *)
(*   - SMCSampler       (src/pyabc/smc_sampler.py)                         *)
(*                                                                         *)
(* Numbers.  Thresholds and distances are integers in units of numpy's    *)
(* default absolute tolerance (1e-8), so that np.isclose(x, 0) is         *)
(* |x| <= ATOL.  A Python float ratio a / b is kept as the pair <<a, b>>. *)
(* A parameter vector is a function Dims -> Vals.  The prior, the         *)
(* simulator, the summaries and the distance are collaborators: a draw of *)
(* the prior is any vector over the values the prior can return, and the  *)
(* distance of a simulated draw is any value of 0..MaxDist.               *)
(***************************************************************************)
EXTENDS Integers, Sequences, FiniteSets, TLC

VARIABLES
    rej,        \* the RejectionSampler instance and the locals of its running call
    smc,        \* the SMCSampler instance and the locals of its running call
    simCalls,   \* simulator invocations made so far in the current top-level call
    accepted,   \* particles accepted so far in the current top-level call
    clock,      \* time.clock(): advances by one per simulator invocation
    accLog,     \* rejection sampling: per batch, the accepted (theta, d) pairs in draw order
    last,       \* SMC: what the most recent step did; for an accepted attempt, its draws
    genLog,     \* SMC: the generations completed so far, in completion order
    prev,       \* the instance's state and statistics as the current call found them on entry
    prior,      \* constructor argument: the values the prior's sample() can return
    callsLeft   \* how many more top-level sample calls the caller will make

vars == <<rej, smc, simCalls, accepted, clock, accLog, last, genLog, prev, prior, callsLeft>>

----------------------------------------------------------------------------
(* Bounds of the model *)

\* nr_samples ranges over 1..MaxSamples
MaxSamples == 2
\* batch_size of a standalone RejectionSampler call ranges over 1..MaxBatch
MaxBatch == 2
\* a threshold schedule has 1..MaxT entries
MaxT == 2
\* parameter values per dimension are 0..MaxVal
MaxVal == 2
\* a prior whose sample() can leave the support returns values of 0..MaxPriorVal
MaxPriorVal == 1
\* distances are 0..MaxDist
MaxDist == 1
\* of the draws of one batch the first MaxDraws are enumerated, the others are rejected
MaxDraws == 2
\* the rejection loop is followed for at most MaxBatches batches
MaxBatches == 2
\* generations t >= 1 are followed for at most MaxAttempts attempts in total
MaxAttempts == 3
\* a non-zero unnormalized importance weight is one of 1..MaxWeight
MaxWeight == 2

(* Program constants *)

\* np.isclose(threshold, 0): default atol, the unit of thresholds and distances
ATOL == 1
\* RejectionSampler.sample(..., batch_size=1000), the value SMCSampler relies on
DefaultBatchSize == 1000

----------------------------------------------------------------------------
(* Values *)

Min(a, b) == IF a < b THEN a ELSE b

Dims == {1, 2}
Vals == 0..MaxVal
\* The priors an instance is built on: one whose sample() stays inside the support
\* (values 1..MaxVal), one whose sample() can return a point of zero density (value 0)
Priors == {1..MaxVal, 0..Min(MaxPriorVal, MaxVal)}
Thetas == [Dims -> Vals]
Zeros == [k \in Dims |-> 0]

\* A threshold argument: a Python number, or something that is not a number.
Num(v) == [kind |-> "num", val |-> v]
NotANumber == [kind |-> "str", val |-> 0]
ThresholdInputs == {Num(v) : v \in (-(ATOL + 1))..MaxDist} \cup {NotANumber}

RECURSIVE SumSeq(_)
SumSeq(s) == IF s = <<>> THEN 0 ELSE Head(s) + SumSeq(Tail(s))

RECURSIVE Flatten(_)
Flatten(ss) == IF ss = <<>> THEN <<>> ELSE Head(ss) \o Flatten(Tail(ss))

\* Equality of two float ratios <<a, b>> and <<c, d>> with non-zero denominators
RatEq(x, y) == x[2] # 0 /\ y[2] # 0 /\ x[1] * y[2] = y[1] * x[2]

\* All sequences over S of length exactly n
SeqsOfLen(S, n) == [1..n -> S]

----------------------------------------------------------------------------
(* RejectionSampler *)

\* isinstance(threshold, (int, float))
IsNumber(threshold) == threshold.kind = "num"

\* np.isclose(a, b) with b = 0: |a - b| <= atol + rtol * |b|
IsClose(a, b) == (IF a - b < 0 THEN b - a ELSE a - b) <= ATOL

\* threshold.setter: "ok", or the exception it raises
ThresholdSetter(threshold) ==
    IF IsNumber(threshold)
    THEN IF threshold.val > 0 \/ IsClose(threshold.val, 0)
         THEN "ok"
         ELSE "ValueError"
    ELSE "TypeError"

\* The instance right after __init__: no run has happened.
RejInit ==
    [pc |-> "idle", raised |-> "",
     threshold |-> [kind |-> "none", val |-> 0], nr_samples |-> 0,
     nr_iter |-> 0, Thetas |-> <<>>, distances |-> <<>>,
     runtime |-> 0, acceptance_rate |-> <<0, 1>>,
     accepted_thetas |-> <<>>, l_distances |-> <<>>,
     nr_batches |-> 0, batch_size |-> 0, starttime |-> 0]

\* _reset()
RejReset(r) ==
    [r EXCEPT !.nr_iter = 0, !.Thetas = <<>>, !.runtime = 0]

\* sample(), lines 119-129, up to the first test of the while loop:
\* the state of instance r once the call has validated, reset and set up the loop,
\* or once the setter has raised.
RejEnterSample(r, threshold, nr_samples, batch_size, now) ==
    IF ThresholdSetter(threshold) # "ok"
    THEN [r EXCEPT !.pc = "error", !.raised = ThresholdSetter(threshold)]
    ELSE [RejReset([r EXCEPT !.threshold = threshold, !.nr_samples = nr_samples])
            EXCEPT !.pc = "loop", !.raised = "",
                   !.accepted_thetas = <<>>, !.l_distances = <<>>,
                   !.starttime = now, !.nr_batches = 0, !.batch_size = batch_size]

\* d_batch <= self.threshold, for one draw
RejAccepts(d, threshold) == d <= threshold.val

\* thetas_batch[d_batch <= self.threshold]
AcceptedThetasOf(batch, threshold) ==
    LET kept == SelectSeq(batch, LAMBDA x : RejAccepts(x.d, threshold))
    IN  [k \in 1..Len(kept) |-> kept[k].theta]

\* Variant: the distances of the whole batch, the mask forgotten
AllDistancesOf(batch, threshold) == [k \in 1..Len(batch) |-> batch[k].d]

\* d_batch[d_batch <= self.threshold]
AcceptedDistancesOf(batch, threshold) ==
    LET kept == SelectSeq(batch, LAMBDA x : RejAccepts(x.d, threshold))
    IN  [k \in 1..Len(kept) |-> kept[k].d]

\* Variant: s[-n:], the last n items kept
KeepLast(s, n) == SubSeq(s, Len(s) - Min(n, Len(s)) + 1, Len(s))

\* s[:n]
Truncate(s, n) == SubSeq(s, 1, Min(n, Len(s)))

\* Variant: the in-loop formula, len(accepted_thetas) / self.nr_iter, before truncation
LoopAcceptanceRate(n_accepted, nr_samples, nr_iter) == <<n_accepted, nr_iter>>

\* self._acceptance_rate = self.nr_samples / self.nr_iter (after the loop)
FinalAcceptanceRate(n_accepted, nr_samples, nr_iter) == <<nr_samples, nr_iter>>

\* self._nr_iter = (nr_batches * batch_size)
FinalNrIter(nr_batches, batch_size) == nr_batches * batch_size

\* The draws of one batch: the enumerated draws of priors.sample(batch_size), each with
\* the distance of its simulation.
Draws == [theta : [Dims -> prior], d : 0..MaxDist]
Batches(batch_size) == SeqsOfLen(Draws, Min(batch_size, MaxDraws))

\* the (theta, d) pairs of a batch that are within the threshold, in draw order
PairsWithin(batch, threshold) == SelectSeq(batch, LAMBDA x : x.d <= threshold.val)

\* The record of a step that resampled and perturbed nothing
NoStep == [kind |-> "none", theta |-> Zeros, thetap |-> Zeros, proposal |-> Zeros]

\* The statistics and results an instance exposes
Stats(r) ==
    [nr_iter |-> r.nr_iter, runtime |-> r.runtime,
     acceptance_rate |-> r.acceptance_rate, Thetas |-> r.Thetas,
     distances |-> r.distances]

\* What a call finds on entry: how the previous call ended, and the statistics it left
Entry(r) == [pc |-> r.pc, stats |-> Stats(r)]

\* One pass of the while loop, lines 73-93
RejBatch ==
    /\ rej.pc = "loop"
    /\ Len(rej.accepted_thetas) < rej.nr_samples
    /\ rej.nr_batches < MaxBatches
    /\ \E batch \in Batches(rej.batch_size) :
         LET acc == rej.accepted_thetas \o AcceptedThetasOf(batch, rej.threshold)
             ds  == rej.l_distances \o AcceptedDistancesOf(batch, rej.threshold)
             now == clock + rej.batch_size
         IN  /\ rej' = [rej EXCEPT !.nr_batches = @ + 1,
                                   !.accepted_thetas = acc,
                                   !.l_distances = ds,
                                   !.runtime = now - rej.starttime,
                                   !.nr_iter = @ + rej.batch_size,
                                   !.acceptance_rate = <<Len(acc), rej.nr_iter + rej.batch_size>>]
             /\ clock' = now
             /\ simCalls' = simCalls + rej.batch_size
             /\ accLog' = Append(accLog, PairsWithin(batch, rej.threshold))
    /\ UNCHANGED <<smc, accepted, last, genLog, prev, prior, callsLeft>>

\* The code after the loop, lines 95-105
RejFinish ==
    /\ rej.pc = "loop"
    /\ Len(rej.accepted_thetas) >= rej.nr_samples
    /\ rej' = [rej EXCEPT !.pc = "done",
                          !.accepted_thetas = Truncate(rej.accepted_thetas, rej.nr_samples),
                          !.runtime = clock - rej.starttime,
                          !.nr_iter = FinalNrIter(rej.nr_batches, rej.batch_size),
                          !.acceptance_rate =
                              FinalAcceptanceRate(Len(rej.accepted_thetas), rej.nr_samples,
                                                  FinalNrIter(rej.nr_batches, rej.batch_size)),
                          !.Thetas = Truncate(rej.accepted_thetas, rej.nr_samples),
                          !.distances = Truncate(rej.l_distances, rej.nr_samples)]
    /\ UNCHANGED <<smc, simCalls, accepted, clock, accLog, last, genLog, prev, prior, callsLeft>>

\* RejectionSampler.sample(threshold, nr_samples, batch_size) called by the user
RejSample ==
    /\ rej.pc \in {"idle", "done", "error"}
    /\ callsLeft > 0
    /\ \E threshold \in ThresholdInputs, nr_samples \in 1..MaxSamples,
          batch_size \in 1..MaxBatch :
         rej' = RejEnterSample(rej, threshold, nr_samples, batch_size, clock)
    /\ callsLeft' = callsLeft - 1
    /\ simCalls' = 0
    /\ accepted' = 0
    /\ accLog' = <<>>
    /\ prev' = Entry(rej)
    /\ UNCHANGED <<smc, clock, last, genLog, prior>>

----------------------------------------------------------------------------
(* The prior (a collaborator): component densities *)

\* prior.pdf(v) of one component: value 0 lies outside the support, the others inside
PriorPdf(v) == IF v = 0 THEN 0 ELSE 1

\* np.exp(self.priors.logpdf(theta)): the joint density of independent components
JointPdf(theta) == IF \E k \in Dims : PriorPdf(theta[k]) = 0 THEN 0 ELSE 1

----------------------------------------------------------------------------
(* SMCSampler *)

\* A row of the weights array: entry i is num[i] / den; den = 0 encodes NaN (0 / 0).
ZeroWeights(n) == [num |-> [k \in 1..n |-> 0], den |-> 1]
IsNaN(w) == w.den = 0

\* np.ones(self.nr_samples) / self.nr_samples
UniformWeights(n) == [num |-> [k \in 1..n |-> 1], den |-> n]

\* weights[t, :] / sum(weights[t, :])
Normalize(w) == IF IsNaN(w) THEN w ELSE [num |-> w.num, den |-> SumSeq(w.num)]

\* 2 * np.cov(thetas[t].T, aweights=weights[t]), kept as: NaN, or the dimensions of
\* non-zero variance.  np.cov divides by 1 - sum(w^2), which is 0 when a single particle
\* carries all the weight (always so for nr_samples = 1), and 0 * inf is NaN.
WeightedCov(thetas_t, w) ==
    LET pos == {k \in 1..Len(thetas_t) : w.num[k] > 0}
    IN  IF IsNaN(w) \/ Cardinality(pos) <= 1
        THEN [nan |-> TRUE, dims |-> {}]
        ELSE [nan |-> FALSE,
              dims |-> {k \in Dims : \E a, b \in pos : thetas_t[a][k] # thetas_t[b][k]}]

\* np.random.choice(np.arange(nr_samples), p=weights[t - 1]): the indices it can return
Resample(w) == {k \in 1..Len(w.num) : w.num[k] > 0}

\* ss.multivariate_normal(theta, sigma, allow_singular=True).rvs(): the draws it can
\* return; a dimension of zero variance keeps the mean's value
Perturb(theta, sigma) == {v \in Thetas : \A k \in Dims \ sigma.dims : v[k] = theta[k]}

\* Variant: a zero-density dimension discards the whole perturbation
RepairWholeVector(thetap, theta) ==
    IF \E k \in Dims : PriorPdf(thetap[k]) = 0 THEN theta ELSE thetap

\* for id, prior in enumerate(self.priors): if prior.pdf(thetap[id]) == 0: thetap[id] = theta[id]
Repair(thetap, theta) ==
    [k \in Dims |-> IF PriorPdf(thetap[k]) = 0 THEN theta[k] ELSE thetap[k]]

\* Variant: the comparison reversed
SMCAcceptsReversed(d, threshold) == d >= threshold.val

\* d <= self.thresholds[t]
SMCAccepts(d, threshold) == d <= threshold.val

\* _calculate_weights: prior density over the kernel mixture of the previous generation,
\* the values it can take: 0 if the prior density is 0, else a positive number
CalculateWeights(curr_theta) ==
    IF JointPdf(curr_theta) = 0 THEN {0} ELSE 1..MaxWeight

\* self._acceptance_rate = self.nr_samples / self.nr_iter
SMCAcceptanceRate(nr_samples, nr_iter) == <<nr_samples, nr_iter>>

\* for t in range(T): the position after generation t has ended
AfterGeneration(t, T) == IF t + 1 < T THEN "attempt" ELSE "finish"

\* The instance right after __init__
SMCInit ==
    [pc |-> "idle", raised |-> "",
     thresholds |-> <<>>, threshold |-> [kind |-> "none", val |-> 0], nr_samples |-> 0,
     nr_iter |-> 0, Thetas |-> <<>>, runtime |-> 0, acceptance_rate |-> <<0, 1>>,
     particles |-> <<>>, weights |-> <<>>, distances |-> <<>>,
     T |-> 0, l_nr_iter |-> 0, l_thetas |-> <<>>, l_weights |-> <<>>, sigma |-> <<>>,
     l_distances |-> <<>>, start |-> 0, t |-> 0, i |-> 0]

\* _reset()
SMCReset(s) ==
    [s EXCEPT !.nr_iter = 0, !.Thetas = <<>>, !.runtime = 0]

\* SMCSampler.sample(thresholds, nr_samples): lines 68-73, then _run_PMC_sampling up to
\* rej_samp.sample(threshold=self.thresholds[0], nr_samples=self.nr_samples), lines 89-115,
\* whose threshold setter may raise
SMCSample ==
    /\ smc.pc \in {"idle", "done", "error"}
    /\ callsLeft > 0
    /\ \E T \in 1..MaxT, nr_samples \in 1..MaxSamples :
       \E thresholds \in SeqsOfLen(ThresholdInputs, T) :
         LET entered == SMCReset([smc EXCEPT !.thresholds = thresholds,
                                             !.threshold = thresholds[T],
                                             !.nr_samples = nr_samples])
             rej_samp == RejEnterSample(RejInit, thresholds[1], nr_samples,
                                        DefaultBatchSize, clock)
         IN  /\ rej' = rej_samp
             /\ smc' = [entered EXCEPT
                          !.pc = IF rej_samp.pc = "error" THEN "error" ELSE "gen0",
                          !.raised = rej_samp.raised,
                          !.T = T, !.l_nr_iter = 0,
                          !.l_thetas = [g \in 1..T |-> [k \in 1..nr_samples |-> Zeros]],
                          !.l_weights = [g \in 1..T |-> ZeroWeights(nr_samples)],
                          !.sigma = [g \in 1..T |-> [nan |-> FALSE, dims |-> {}]],
                          !.l_distances = [g \in 1..T |-> [k \in 1..nr_samples |-> 0]],
                          !.start = clock, !.t = 0, !.i = 0]
    /\ callsLeft' = callsLeft - 1
    /\ simCalls' = 0
    /\ accepted' = 0
    /\ accLog' = <<>>
    /\ genLog' = <<>>
    /\ last' = NoStep
    /\ prev' = Entry(smc)
    /\ UNCHANGED <<clock, prior>>

\* Generation 0 once rej_samp.sample has returned: lines 117-126, then the end of the
\* generation, lines 167-169 (line 126's covariance is overwritten by line 169 unread)
SMCGen0 ==
    /\ smc.pc = "gen0"
    /\ rej.pc = "done"
    /\ LET n == smc.l_nr_iter + rej.nr_iter
           w == Normalize(UniformWeights(smc.nr_samples))
       IN  smc' = [smc EXCEPT
                     !.l_nr_iter = n,
                     !.nr_iter = n,
                     !.runtime = clock - smc.start,
                     !.acceptance_rate = SMCAcceptanceRate(smc.nr_samples, n),
                     !.l_thetas[1] = rej.Thetas,
                     !.l_distances[1] = rej.distances,
                     !.l_weights[1] = w,
                     !.sigma[1] = WeightedCov(rej.Thetas, w),
                     !.t = 1, !.i = 0,
                     !.pc = AfterGeneration(0, smc.T)]
    /\ accepted' = accepted + smc.nr_samples
    /\ genLog' = Append(genLog, 0)
    /\ last' = [NoStep EXCEPT !.kind = "gen0"]
    /\ UNCHANGED <<rej, simCalls, clock, accLog, prev, prior, callsLeft>>

\* An attempt of generation t >= 1 that raises before it simulates: np.random.choice on
\* NaN probabilities, or multivariate_normal on a NaN covariance (lines 132-136)
SMCAttemptRaises ==
    /\ smc.pc = "attempt"
    /\ smc.l_nr_iter - rej.nr_iter < MaxAttempts
    /\ IsNaN(smc.l_weights[smc.t]) \/ smc.sigma[smc.t].nan
    /\ smc' = [smc EXCEPT !.l_nr_iter = @ + 1, !.pc = "error", !.raised = "ValueError"]
    /\ last' = [NoStep EXCEPT !.kind = "raise"]
    /\ UNCHANGED <<rej, simCalls, accepted, clock, accLog, genLog, prev, prior, callsLeft>>

\* One pass of the while (True) loop of slot i in generation t >= 1, lines 132-165.
\* (Sequence indices are 1-based: generation t is row t + 1, and smc.t is the row of the
\* previous generation.)
SMCAttempt ==
    /\ smc.pc = "attempt"
    /\ smc.l_nr_iter - rej.nr_iter < MaxAttempts
    /\ ~ IsNaN(smc.l_weights[smc.t])
    /\ ~ smc.sigma[smc.t].nan
    /\ \E idx \in Resample(smc.l_weights[smc.t]), d \in 0..MaxDist :
       \E thetap \in Perturb(smc.l_thetas[smc.t][idx], smc.sigma[smc.t]) :
         LET theta    == smc.l_thetas[smc.t][idx]
             proposal == Repair(thetap, theta)
             n        == smc.l_nr_iter + 1
             row      == smc.t + 1
             slot     == smc.i + 1
             now      == clock + 1
             step     == [theta |-> theta, thetap |-> thetap, proposal |-> proposal]
         IN  /\ clock' = now
             /\ simCalls' = simCalls + 1
             /\ IF ~ IsNumber(smc.thresholds[row])
                THEN \* d <= "a string" raises TypeError
                     /\ smc' = [smc EXCEPT !.l_nr_iter = n, !.pc = "error",
                                           !.raised = "TypeError"]
                     /\ last' = [NoStep EXCEPT !.kind = "raise"]
                     /\ accepted' = accepted
                ELSE IF SMCAccepts(d, smc.thresholds[row])
                THEN \E w \in CalculateWeights(proposal) :
                     /\ smc' = [smc EXCEPT !.l_nr_iter = n,
                                           !.l_distances[row][slot] = d,
                                           !.l_thetas[row][slot] = proposal,
                                           !.l_weights[row].num[slot] = w,
                                           !.i = slot,
                                           !.pc = IF slot = smc.nr_samples
                                                  THEN "endgen" ELSE "attempt"]
                     /\ last' = [kind |-> "accept"] @@ step
                     /\ accepted' = accepted + 1
                ELSE /\ smc' = [smc EXCEPT !.l_nr_iter = n,
                                           !.nr_iter = n,
                                           !.runtime = now - smc.start,
                                           !.acceptance_rate =
                                               SMCAcceptanceRate(smc.nr_samples, n)]
                     /\ last' = [NoStep EXCEPT !.kind = "reject"]
                     /\ accepted' = accepted
    /\ UNCHANGED <<rej, accLog, genLog, prev, prior, callsLeft>>

\* The end of generation t >= 1, lines 167-169: normalize, re-estimate the covariance
SMCEndGeneration ==
    /\ smc.pc = "endgen"
    /\ LET row == smc.t + 1
           w   == Normalize(smc.l_weights[row])
       IN  smc' = [smc EXCEPT !.l_weights[row] = w,
                              !.sigma[row] = WeightedCov(smc.l_thetas[row], w),
                              !.t = row, !.i = 0,
                              !.pc = AfterGeneration(smc.t, smc.T)]
    /\ genLog' = Append(genLog, smc.t)
    /\ last' = [NoStep EXCEPT !.kind = "endgen"]
    /\ UNCHANGED <<rej, simCalls, accepted, clock, accLog, prev, prior, callsLeft>>

\* After the last generation, lines 171-179
SMCFinish ==
    /\ smc.pc = "finish"
    /\ smc' = [smc EXCEPT !.pc = "done",
                          !.runtime = clock - smc.start,
                          !.nr_iter = smc.l_nr_iter,
                          !.acceptance_rate = SMCAcceptanceRate(smc.nr_samples, smc.l_nr_iter),
                          !.particles = smc.l_thetas,
                          !.weights = smc.l_weights,
                          !.Thetas = smc.l_thetas[smc.T],
                          !.distances = smc.l_distances]
    /\ last' = [NoStep EXCEPT !.kind = "finish"]
    /\ UNCHANGED <<rej, simCalls, accepted, clock, accLog, genLog, prev, prior, callsLeft>>

----------------------------------------------------------------------------
(* Specifications *)

InitCommon ==
    /\ rej = RejInit
    /\ smc = SMCInit
    /\ simCalls = 0
    /\ accepted = 0
    /\ clock = 0
    /\ accLog = <<>>
    /\ last = NoStep
    /\ genLog = <<>>
    /\ prev = Entry(RejInit)

\* A standalone RejectionSampler, one sample call
InitRej ==
    /\ InitCommon
    /\ prior \in Priors
    /\ callsLeft = 1

NextRej == RejSample \/ RejBatch \/ RejFinish

SpecRej == InitRej /\ [][NextRej]_vars

\* An SMCSampler, one sample call
InitSMC ==
    /\ InitCommon
    /\ prior \in Priors
    /\ callsLeft = 1

NextSMC ==
    \/ SMCSample
    \/ RejBatch
    \/ RejFinish
    \/ SMCGen0
    \/ SMCAttemptRaises
    \/ SMCAttempt
    \/ SMCEndGeneration
    \/ SMCFinish

SpecSMC == InitSMC /\ [][NextSMC]_vars

\* An SMCSampler built on a point prior inside the support, two sample calls in a row
InitReuse ==
    /\ InitCommon
    /\ prior = {1}
    /\ callsLeft = 2

SpecReuse == InitReuse /\ [][NextSMC]_vars

----------------------------------------------------------------------------
(* Claims about RejectionSampler, under SpecRej *)

AllAccepted == Flatten(accLog)

\* C1: when RejectionSampler.sample returns for a threshold >= 0, it holds exactly
\* nr_samples parameter vectors and exactly nr_samples distances, and the i-th stored
\* distance is the distance of the i-th stored vector's draw and is <= threshold.
C1_ExactlyNrSamplesWithinThreshold ==
    (rej.pc = "done" /\ rej.threshold.val >= 0) =>
        /\ Len(rej.Thetas) = rej.nr_samples
        /\ Len(rej.distances) = rej.nr_samples
        /\ \A k \in 1..rej.nr_samples :
             rej.distances[k] <= rej.threshold.val
        /\ \E f \in [1..rej.nr_samples -> 1..Len(AllAccepted)] :
             \A k \in 1..rej.nr_samples :
               /\ AllAccepted[f[k]] = [theta |-> rej.Thetas[k], d |-> rej.distances[k]]
               /\ \A m \in 1..rej.nr_samples : k < m => f[k] < f[m]

\* C1 witness: a call returned two samples after two batches in which draws were
\* rejected, and the two stored distances differ.
C1_Witness ==
    /\ rej.pc = "done"
    /\ rej.nr_samples = 2
    /\ Len(accLog) = 2
    /\ rej.threshold.val = 0
    /\ rej.Thetas[1] # rej.Thetas[2]
    /\ Len(AllAccepted) < 2 * rej.batch_size

\* C6: the result is exactly the first nr_samples accepted draws in draw order (batch
\* order, then order within the batch) with their distances in the same order; the loop
\* ended after the batch that reached nr_samples and nothing was drawn after it.
C6_TruncationKeepsFirstDrawn ==
    rej.pc = "done" =>
        /\ Len(AllAccepted) >= rej.nr_samples
        /\ rej.Thetas = [k \in 1..rej.nr_samples |-> AllAccepted[k].theta]
        /\ rej.distances = [k \in 1..rej.nr_samples |-> AllAccepted[k].d]
        /\ Len(Flatten(SubSeq(accLog, 1, Len(accLog) - 1))) < rej.nr_samples
        /\ simCalls = Len(accLog) * rej.batch_size

\* C6 witness: a batch larger than nr_samples accepted more than nr_samples draws, and
\* a discarded draw is closer to the observation than the kept one.
C6_Witness ==
    /\ rej.pc = "done"
    /\ rej.batch_size > rej.nr_samples
    /\ Len(accLog) = 1
    /\ Len(AllAccepted) > rej.nr_samples
    /\ AllAccepted[rej.nr_samples + 1].d < rej.distances[rej.nr_samples]

\* C7: when sample returns, the recorded iteration count is (batches run) x batch_size
\* and the acceptance rate is nr_samples / that count, surplus or not.
C7_AcceptanceRateIsSamplesOverIterations ==
    rej.pc = "done" =>
        /\ rej.nr_iter = Len(accLog) * rej.batch_size
        /\ rej.nr_iter = simCalls
        /\ RatEq(rej.acceptance_rate, <<rej.nr_samples, rej.nr_iter>>)

\* C7 witness: the call returned after two batches, the last of which accepted more
\* draws than were needed.
C7_Witness ==
    /\ rej.pc = "done"
    /\ Len(accLog) = 2
    /\ Len(AllAccepted) > rej.nr_samples

----------------------------------------------------------------------------
(* Claims about SMCSampler, under SpecSMC and SpecReuse *)

\* a threshold that is negative or not a number
Invalid(threshold) == ~ IsNumber(threshold) \/ threshold.val < 0

\* the stored particles: complete rows of finished generations, and the filled slots of
\* the generation under way
Filled ==
    {<<g, k>> \in (1..smc.T) \X (1..smc.nr_samples) :
        \/ g <= Len(genLog)
        \/ g = Len(genLog) + 1 /\ k <= smc.i}

\* C2: a sample call with a negative or non-numeric threshold entry, at any position
\* of the schedule, makes no simulator invocation.
C2_InvalidThresholdNeverSimulates ==
    (smc.pc # "idle" /\ \E k \in 1..Len(smc.thresholds) : Invalid(smc.thresholds[k]))
        => simCalls = 0

\* C3: at the end of every generation the weights of that generation are all
\* non-negative and sum to 1.
C3_WeightsSumToOne ==
    \A g \in 1..Len(genLog) :
        LET w == smc.l_weights[g]
        IN  /\ ~ IsNaN(w)
            /\ \A k \in 1..Len(w.num) : w.num[k] >= 0
            /\ SumSeq(w.num) = w.den

\* C4: generations complete in the order 0, 1, ..., never more than T of them; generation
\* 0 is the result of rejection sampling at thresholds[0]; and when the run has ended,
\* T generations have completed and every particle of every generation t has a recorded
\* distance <= thresholds[t].
C4_GenerationsInOrderWithinThresholds ==
    /\ genLog = [k \in 1..Len(genLog) |-> k - 1]
    /\ Len(genLog) <= smc.T
    /\ genLog # <<>> =>
         /\ rej.pc = "done"
         /\ rej.threshold = smc.thresholds[1]
         /\ rej.nr_samples = smc.nr_samples
         /\ smc.l_thetas[1] = rej.Thetas
         /\ smc.l_distances[1] = rej.distances
    /\ smc.pc = "finish" => Len(genLog) = smc.T
    /\ smc.pc = "done" =>
         /\ Len(genLog) = smc.T
         /\ Len(smc.particles) = smc.T
         /\ \A g \in 1..smc.T :
              /\ Len(smc.particles[g]) = smc.nr_samples
              /\ \A k \in 1..smc.nr_samples :
                   smc.distances[g][k] <= smc.thresholds[g].val

\* C4 witness: a run of two generations over a decreasing schedule ended after at least
\* one rejected attempt.
C4_Witness ==
    /\ smc.pc = "done"
    /\ smc.T = 2
    /\ smc.nr_samples = 2
    /\ smc.thresholds[2].val < smc.thresholds[1].val
    /\ simCalls > rej.nr_iter + smc.nr_samples

\* C5: a sample call that fails validation of its thresholds leaves the statistics and
\* results of the previous successful run on the instance unchanged.
C5_FailedValidationKeepsStatistics ==
    (smc.pc = "error" /\ rej.pc = "error" /\ prev.pc = "done")
        => Stats(smc) = prev.stats

\* C8: whenever the acceptance rate is updated it is (particles accepted so far in the
\* run) / (simulation attempts so far in the run).
C8_AcceptanceRateIsAcceptedOverAttempts ==
    last.kind \in {"gen0", "reject", "finish"}
        => RatEq(smc.acceptance_rate, <<accepted, simCalls>>)

\* C9: in generations t >= 1 and at the end of the run, the instance's iteration counter
\* equals the number of simulator invocations made so far.
C9_CounterCountsSimulatorInvocations ==
    smc.pc \in {"attempt", "endgen", "finish", "done"} => smc.nr_iter = simCalls

\* C10: the simulated proposal differs from the perturbed draw only in the dimensions
\* whose prior density at the perturbed value is zero, where it carries the parent's
\* value; the accepted proposal is what is stored; and if every generation-0 particle
\* has non-zero prior density in every dimension, so has every stored particle.
C10_RepairKeepsParticlesInSupport ==
    /\ last.kind = "accept" =>
         \A k \in Dims :
            last.proposal[k] = IF PriorPdf(last.thetap[k]) = 0
                               THEN last.theta[k] ELSE last.thetap[k]
    /\ last.kind = "accept" => smc.l_thetas[smc.t + 1][smc.i] = last.proposal
    /\ (/\ genLog # <<>>
        /\ \A k \in 1..smc.nr_samples : \A c \in Dims : PriorPdf(smc.l_thetas[1][k][c]) # 0)
         => \A p \in Filled : \A c \in Dims : PriorPdf(smc.l_thetas[p[1]][p[2]][c]) # 0

\* C10 witness: generation 0 lies inside the support, and an accepted proposal was
\* repaired in one dimension while it kept a perturbation inside the support in another.
C10_Witness ==
    /\ last.kind = "accept"
    /\ \A k \in 1..smc.nr_samples : \A c \in Dims : PriorPdf(smc.l_thetas[1][k][c]) # 0
    /\ \E c \in Dims : PriorPdf(last.thetap[c]) = 0
    /\ \E c \in Dims : PriorPdf(last.thetap[c]) # 0 /\ last.thetap[c] # last.theta[c]

=============================================================================
